---- MODULE Spec2Model ----
(***************************************************************************)
(* Flexible-Cloud-Resource: the task/server allocation state shared by the *)
(* auction mechanisms, the decentralised iterative auction (DIA) loop of   *)
(* src/src/auctions/decentralised_iterative_auction.py and the fixed-speed *)
(* VCG auction of src/auctions/fixed_vcg_auction.py.                       *)
(*                                                                         *)
(* Task and server ids are positive integers; None is 0.  Prices are       *)
(* integers, math.inf is the number Inf, larger than every price a run     *)
(* can form.  Each mechanism has a specification of its own (SpecDIA,      *)
(* SpecVCG) over the same variables; the variables a mechanism does not    *)
(* use keep the value its Init gives them.                                 *)
(***************************************************************************)
EXTENDS Integers, Sequences, FiniteSets, TLC

\* ------------------------------------------------------------------ bounds
\* The largest task list and server list a run is started with.
MaxTasks == 2
MaxServers == 2

\* `None` of the source (no running server, no chosen server).
None == 0
\* math.inf, the price of a pricing sub-solve without a solution.
Inf == 1000000

\* The task specifications a DIA run draws from: required_storage S,
\* required_computation C, required_results_data R, value, deadline.
TaskTypes ==
    [S : {1, 2}, C : {1}, R : {1}, value : {1, 4}, deadline : {3}]

\* The servers a DIA run draws from.
ServerTypes ==
    [storage_capacity : {1, 2}, computation_capacity : {2},
     bandwidth_capacity : {3}, price_change : {1, 3}, initial_price : {25}]

\* The largest job list and server list a fixed VCG auction is started with.
MaxJobs == 2
MaxVcgServers == 2

\* The most solves of one auction that end FEASIBLE on a solution that is not
\* an optimum (the time limit cut the search short).
MaxInexact == 1

\* The jobs a fixed VCG auction draws from.
JobTypes ==
    [S : {1, 2}, C : {1}, R : {1}, value : {3, 10}, deadline : {3}]

\* The servers a fixed VCG auction draws from (max_storage, max_computation
\* and max_bandwidth of the source are the three capacities).
VcgServerTypes ==
    [storage_capacity : {2, 4}, computation_capacity : {2},
     bandwidth_capacity : {3}, price_change : {1}]

\* ------------------------------------------------------------------- state
VARIABLES
    tasks,              \* the task list handed to the mechanism (ids)
    servers,            \* the server list handed to the mechanism (ids)
    task,               \* task[t]: the immutable specification of task t
    server,             \* server[s]: capacities and price_change of server s
    speed,              \* speed[t] = <<loading, compute, sending>>
    running_server,     \* running_server[t]: a server id or None
    price,              \* price[t]
    allocated_tasks,    \* allocated_tasks[s]: the resident list of server s
    \* locals of dia_solver
    unallocated_tasks,  \* the list of tasks still to be drawn
    rounds,             \* completed rounds
    dia_pc,             \* "loop" | "returned" | "raised"
    dia_task,           \* the task drawn in the last round (None before)
    min_price,          \* the last round's minimum quote (-1: no quote)
    min_server,         \* the server that gave it (None: no server)
    min_speeds,         \* the speeds dictionary that came with it
    branch,             \* the branch the last round took: "admit" | "reject"
    quote_failed,       \* history: some pricing sub-solve returned no quote
    \* locals of fixed_vcg_auction
    vcg_pc,             \* "fix" | "optimal" | "pricing" | "result" | "none"
                        \*   | "ValueError" | "SolverError"
    optimal_solution,   \* the value optimal_algorithm returned first
    allocated_jobs,     \* the jobs with a server in the first optimum
    job_allocation,     \* job -> its server in the first optimum
    job_prices,         \* job -> optimal_solution - optimal_prime
    server_revenues,    \* server -> optimal_solution - optimal_prime
    job_i,              \* position of the job-removal loop
    server_i,           \* position of the server-removal loop
    failure,            \* the failure flag of the returned Result
    \* history of the solver's answers
    first_solution,     \* the allocation the first solve ended with
    sub_welfare,        \* sub-problem -> objective value of its solution
    inexact_solves,     \* the solves so far that ended off the optimum
    time_limit,         \* the time_limit the auction was called with
    solve_time_limit,   \* the time_limit argument of the latest solve
    \* PriorityQueue: the class attribute and two instances
    pq_queue,           \* PriorityQueue.queue, the list every instance shares
    pq_size,            \* pq_size[i]: the size attribute instance i reads
    pq_held,            \* history: what i pushed and has not popped, oldest first
    pq_last,            \* history: the last operation and what it returned
    pq_pc,              \* "run" | "IndexError" | "idle"
    pq_ops,             \* operations called so far
    \* relaxed_algorithm
    relaxed_pc,         \* "call" | "result" | "none" | "idle"
    relaxed_status,     \* the solve status: "Optimal" | "Feasible"
                        \*   | "Infeasible" | "Unknown" ("none" before)
    super_tasks,        \* super_server.allocated_tasks
    \* single calls of library functions
    fn_pc,              \* "idle", "call", "returned", or the exception raised
    fn_call             \* the call: its arguments and what it returned

domainVars == <<tasks, servers, task, server, speed, running_server, price,
                allocated_tasks>>
diaVars == <<unallocated_tasks, rounds, dia_pc, dia_task, min_price,
             min_server, min_speeds, branch, quote_failed>>
vcgVars == <<vcg_pc, optimal_solution, allocated_jobs, job_allocation,
             job_prices, server_revenues, job_i, server_i, failure,
             first_solution, sub_welfare, inexact_solves, time_limit,
             solve_time_limit>>
pqVars == <<pq_queue, pq_size, pq_held, pq_last, pq_pc, pq_ops>>
relaxedVars == <<relaxed_pc, relaxed_status, super_tasks>>
fnVars == <<fn_pc, fn_call>>
libVars == <<pqVars, relaxedVars, fnVars>>
\* Everything but the queues; everything but the relaxed solve.
notPqVars == <<domainVars, diaVars, vcgVars, relaxedVars, fnVars>>
notRelaxedVars == <<diaVars, vcgVars, pqVars, fnVars>>
notFnVars == <<diaVars, vcgVars, pqVars, relaxedVars>>
vars == <<domainVars, diaVars, vcgVars, libVars>>

\* ----------------------------------------------------------------- helpers
Range(seq) == {seq[i] : i \in 1..Len(seq)}

RECURSIVE SumSeq(_, _)
\* sum(f[x] for x in seq)
SumSeq(f, seq) ==
    IF seq = <<>> THEN 0 ELSE f[Head(seq)] + SumSeq(f, Tail(seq))

RECURSIVE SumSet(_, _)
\* sum(f[x] for x in set)
SumSet(f, set) ==
    IF set = {} THEN 0
    ELSE LET x == CHOOSE y \in set : TRUE IN f[x] + SumSet(f, set \ {x})

\* list.pop() with the index left out: the list loses its last element.
RemoveLast(seq, i) == SubSeq(seq, 1, Len(seq) - 1)

\* list.pop(i) leaves the list without its i-th element.
RemoveAt(seq, i) == SubSeq(seq, 1, i - 1) \o SubSeq(seq, i + 1, Len(seq))

\* The deadline inequality S/s + C/w + R/r <= d, in integers.
DeadlineOK(t, sp) ==
    task[t].S * sp[2] * sp[3] + sp[1] * task[t].C * sp[3]
        + sp[1] * sp[2] * task[t].R
    <= task[t].deadline * sp[1] * sp[2] * sp[3]

\* Server.revenue: the sum of the prices of the resident tasks.
Revenue(s) == SumSeq(price, allocated_tasks[s])

\* ------------------------------------------------------ optimal_task_price
\* The domains of the speed variables of the pricing model on server s.
SpeedDomain(s) ==
    (1..(server[s].bandwidth_capacity - 1))
        \X (1..server[s].computation_capacity)
        \X (1..(server[s].bandwidth_capacity - 1))

\* The solutions of the pricing model of new_task on server s: which
\* residents stay (alloc) and a speed triple for every resident and for
\* new_task; every task meets its deadline, new_task is always counted.
RepackSolutions(new_task, s) ==
    LET residents == Range(allocated_tasks[s])
        all == residents \cup {new_task}
    IN  {sol \in [alloc : SUBSET residents, sp : [all -> SpeedDomain(s)]] :
            /\ \A t \in all : DeadlineOK(t, sol.sp[t])
            /\ SumSet([t \in all |-> task[t].S], sol.alloc)
                 + task[new_task].S <= server[s].storage_capacity
            /\ SumSet([t \in all |-> sol.sp[t][2]], sol.alloc)
                 + sol.sp[new_task][2] <= server[s].computation_capacity
            /\ SumSet([t \in all |-> sol.sp[t][1] + sol.sp[t][3]], sol.alloc)
                 + sol.sp[new_task][1] + sol.sp[new_task][3]
                 <= server[s].bandwidth_capacity}

\* An objective that counts the residents that stay.
NewRevenueCountsTasks(sol) == Cardinality(sol.alloc)

\* The objective of a solution: the prices of the residents that stay.
NewRevenue(sol) == SumSet(price, sol.alloc)

\* What optimal_task_price can return for new_task on server s: (inf, {})
\* when the solve ends neither FEASIBLE nor OPTIMAL (no solution exists, or
\* none was found within the time limit), else the quote and the speeds
\* dictionary of the solution the solver ends with.  keys is the dictionary's
\* key order: the residents, then new_task.
optimal_task_price(new_task, s) ==
    {[price |-> Inf, speeds |-> << >>, keys |-> << >>]}
    \cup
    {[price |-> Revenue(s) - NewRevenue(sol) + server[s].price_change,
      speeds |-> [t \in Range(allocated_tasks[s]) \cup {new_task} |->
                    <<sol.sp[t][1], sol.sp[t][2], sol.sp[t][3],
                      t = new_task \/ t \in sol.alloc>>],
      keys |-> allocated_tasks[s] \o <<new_task>>] :
        sol \in RepackSolutions(new_task, s)}

\* ---------------------------------------------------------------- dia_solver
RECURSIVE MinQuoteLast(_, _, _)
\* The loop with the running minimum replaced also by an equal price.
MinQuoteLast(quotes, srvs, acc) ==
    IF srvs = << >> THEN acc
    ELSE LET s == Head(srvs)
             q == quotes[s]
             next == IF acc.min_price = -1 \/ q.price <= acc.min_price
                     THEN [min_price |-> q.price, min_speeds |-> q.speeds,
                           min_keys |-> q.keys, min_server |-> s]
                     ELSE acc
         IN MinQuoteLast(quotes, Tail(srvs), next)

RECURSIVE MinQuote(_, _, _)
\* The for loop over the servers: the running minimum is replaced when no
\* quote is held yet (min_price == -1) or the new price is strictly lower.
MinQuote(quotes, srvs, acc) ==
    IF srvs = << >> THEN acc
    ELSE LET s == Head(srvs)
             q == quotes[s]
             next == IF acc.min_price = -1 \/ q.price < acc.min_price
                     THEN [min_price |-> q.price, min_speeds |-> q.speeds,
                           min_keys |-> q.keys, min_server |-> s]
                     ELSE acc
         IN MinQuote(quotes, Tail(srvs), next)

NoQuote ==
    [min_price |-> -1, min_speeds |-> << >>, min_keys |-> << >>,
     min_server |-> None]

\* The test that sends a round into the allocate_task branch.
TakesAdmitBranch(t, m) == m.min_price = -1 \/ task[t].value < m.min_price

\* One quote per server for task t.
QuoteChoices(t) ==
    {q \in [Range(servers) ->
              UNION {optimal_task_price(t, s) : s \in Range(servers)}] :
        \A s \in Range(servers) : q[s] \in optimal_task_price(t, s)}

\* Server.reset_allocations: the server forgets its residents.
ServerResetAllocations(s) == [allocated_tasks EXCEPT ![s] = << >>]

\* The time_limit argument of a call of optimal_algorithm: a number of
\* seconds, or the function time imported from the time module; NoSolve
\* before the first call.
NoSolve == [kind |-> "none", value |-> 0]
TimeLimitValue(v) == [kind |-> "seconds", value |-> v]
TimeFunction == [kind |-> "function", value |-> 0]

\* The fixed VCG auction is not running.
VcgIdle ==
    /\ vcg_pc = "idle"
    /\ optimal_solution = 0
    /\ allocated_jobs = << >>
    /\ job_allocation = << >>
    /\ job_prices = << >>
    /\ server_revenues = << >>
    /\ job_i = 0
    /\ server_i = 0
    /\ failure = FALSE
    /\ first_solution = << >>
    /\ sub_welfare = << >>
    /\ inexact_solves = 0
    /\ time_limit = None
    /\ solve_time_limit = NoSolve

\* No PriorityQueue is in use.
PqIdle ==
    /\ pq_queue = << >>
    /\ pq_size = << >>
    /\ pq_held = << >>
    /\ pq_last = << >>
    /\ pq_pc = "idle"
    /\ pq_ops = 0

\* relaxed_algorithm is not running.
RelaxedIdle ==
    /\ relaxed_pc = "idle"
    /\ relaxed_status = "none"
    /\ super_tasks = << >>

\* The library pieces outside the running mechanism are not in use.
\* No library function is being called.
FnIdle == fn_pc = "idle" /\ fn_call = [op |-> "none"]

LibIdle == PqIdle /\ RelaxedIdle /\ FnIdle

\* The state a DIA run starts in: a fresh population, nothing allocated,
\* every price 0, every task waiting.
InitDIA ==
    /\ \E nt \in 0..MaxTasks, ns \in 0..MaxServers :
        /\ tasks = [i \in 1..nt |-> i]
        /\ servers = [i \in 1..ns |-> i]
        /\ task \in [1..nt -> TaskTypes]
        /\ server \in [1..ns -> ServerTypes]
        /\ speed = [t \in 1..nt |-> <<0, 0, 0>>]
        /\ running_server = [t \in 1..nt |-> None]
        /\ price = [t \in 1..nt |-> 0]
        /\ allocated_tasks = [s \in 1..ns |-> << >>]
    /\ unallocated_tasks = tasks
    /\ rounds = 0
    /\ dia_pc = "loop"
    /\ dia_task = None
    /\ min_price = -1
    /\ min_server = None
    /\ min_speeds = << >>
    /\ branch = "none"
    /\ quote_failed = FALSE
    /\ VcgIdle
    /\ LibIdle

\* What every round does before it branches: the drawn task leaves the
\* list, the quotes are taken and the minimum is kept.
RoundDraws(i, q, m) ==
    /\ unallocated_tasks' = RemoveAt(unallocated_tasks, i)
    /\ dia_task' = unallocated_tasks[i]
    /\ min_price' = m.min_price
    /\ min_server' = m.min_server
    /\ min_speeds' = m.min_speeds
    /\ quote_failed' =
         (quote_failed \/ \E s \in Range(servers) : q[s].price = Inf)

\* A round that takes the else branch: the task is dropped and the round
\* is counted.
DiaReject ==
    /\ dia_pc = "loop"
    /\ unallocated_tasks # << >>
    /\ \E i \in 1..Len(unallocated_tasks) :
         \E q \in QuoteChoices(unallocated_tasks[i]) :
            LET t == unallocated_tasks[i]
                m == MinQuote(q, servers, NoQuote)
            IN  /\ ~TakesAdmitBranch(t, m)
                /\ RoundDraws(i, q, m)
                /\ branch' = "reject"
                /\ rounds' = rounds + 1
                /\ UNCHANGED <<domainVars, dia_pc, vcgVars, libVars>>

\* A round that takes the allocate_task branch.  The debug line reads
\* min_server.name, an AttributeError when no server was chosen.  The call
\* allocate_task(task, min_price, min_server, unallocated_tasks, *min_speeds)
\* unpacks the dictionary: its keys become the positional arguments, so any
\* number of keys but one is a TypeError raised before the body runs, and
\* with one key task_speeds is bound to that task: the body resets the
\* server, stamps the price and raises AttributeError at task_speeds.items().
DiaAdmit ==
    /\ dia_pc = "loop"
    /\ unallocated_tasks # << >>
    /\ \E i \in 1..Len(unallocated_tasks) :
         \E q \in QuoteChoices(unallocated_tasks[i]) :
            LET t == unallocated_tasks[i]
                m == MinQuote(q, servers, NoQuote)
            IN  /\ TakesAdmitBranch(t, m)
                /\ RoundDraws(i, q, m)
                /\ branch' = "admit"
                /\ IF m.min_server = None
                   THEN /\ dia_pc' = "AttributeError"
                        /\ UNCHANGED <<allocated_tasks, price>>
                   ELSE IF Len(m.min_keys) # 1
                   THEN /\ dia_pc' = "TypeError"
                        /\ UNCHANGED <<allocated_tasks, price>>
                   ELSE /\ allocated_tasks' =
                              ServerResetAllocations(m.min_server)
                        /\ price' = [price EXCEPT ![t] = m.min_price]
                        /\ dia_pc' = "AttributeError"
                /\ UNCHANGED <<tasks, servers, task, server, speed,
                               running_server, rounds, vcgVars, libVars>>

\* The while loop ends on an empty list and dia_solver returns.
DiaReturn ==
    /\ dia_pc = "loop"
    /\ unallocated_tasks = << >>
    /\ dia_pc' = "returned"
    /\ UNCHANGED <<domainVars, unallocated_tasks, rounds, dia_task,
                   min_price, min_server, min_speeds, branch, quote_failed,
                   vcgVars, libVars>>

NextDIA == DiaReject \/ DiaAdmit \/ DiaReturn

SpecDIA == InitDIA /\ [][NextDIA]_vars

\* dia_solver raised: the run ends without a result.
DiaRaised == dia_pc \in {"AttributeError", "TypeError"}

\* ------------------------------------------------------- fixed_vcg_auction
SetMax(set) == CHOOSE x \in set : \A y \in set : y <= x
SetMin(set) == CHOOSE x \in set : \A y \in set : x <= y

\* A speed triple, largest first.
Descending(sp) ==
    LET hi == SetMax({sp[1], sp[2], sp[3]})
        lo == SetMin({sp[1], sp[2], sp[3]})
    IN  <<hi, sp[1] + sp[2] + sp[3] - hi - lo, lo>>

\* The order of the key exp(s)^3 + exp(w)^3 + exp(r)^3: as e^3 > 3, one
\* triple has the smaller key exactly when, largest speed first, it is the
\* smaller in dictionary order.
SpeedKeyLess(x, y) ==
    LET a == Descending(x)
        b == Descending(y)
    IN  \/ a[1] < b[1]
        \/ a[1] = b[1] /\ a[2] < b[2]
        \/ a[1] = b[1] /\ a[2] = b[2] /\ a[3] < b[3]

\* The triples FixedJob.__init__ searches: s and r in
\* range(1, max max_bandwidth), w in range(1, max max_computation).
FixedSpeedRange(srvs) ==
    LET bw == SetMax({server[s].bandwidth_capacity : s \in Range(srvs)})
        comp == SetMax({server[s].computation_capacity : s \in Range(srvs)})
    IN  (1..(bw - 1)) \X (1..(comp - 1)) \X (1..(bw - 1))

\* The triples that meet the job's deadline.
FeasibleFixedSpeeds(t, srvs) ==
    {sp \in FixedSpeedRange(srvs) : DeadlineOK(t, sp)}

\* The triples min(..., key=...) can return: those of the least key.  Triples
\* that are permutations of each other have keys that differ only by the
\* rounding of the floating point sum; any of them may be the one returned.
FixedSpeedChoices(t, srvs) ==
    {sp \in FeasibleFixedSpeeds(t, srvs) :
        \A other \in FeasibleFixedSpeeds(t, srvs) : ~SpeedKeyLess(other, sp)}

\* The jobs of a list that are allocated to server s, in list order.
RECURSIVE JobsOn(_, _, _)
JobsOn(a, jobs, s) ==
    IF jobs = << >> THEN << >>
    ELSE (IF a[Head(jobs)] = s THEN <<Head(jobs)>> ELSE << >>)
            \o JobsOn(a, Tail(jobs), s)

\* The three capacity constraints optimal_algorithm adds for server s: each
\* of the three sums is bounded by server.max_storage.
ServerConstraints(a, jobs, s) ==
    LET on == Range(JobsOn(a, jobs, s))
    IN  /\ SumSet([t \in on |-> task[t].S], on)
            <= server[s].storage_capacity
        /\ SumSet([t \in on |-> speed[t][2]], on)
            <= server[s].storage_capacity
        /\ SumSet([t \in on |-> speed[t][1] + speed[t][3]], on)
            <= server[s].storage_capacity

\* The solutions of the model optimal_algorithm builds: every job on at most
\* one server (None: on no server), every server within its constraints.
FeasibleAllocations(jobs, srvs) ==
    {a \in [Range(jobs) -> Range(srvs) \cup {None}] :
        \A s \in Range(srvs) : ServerConstraints(a, jobs, s)}

\* The objective: the values of the jobs that have a server.
Welfare(a, jobs) ==
    LET on == {t \in Range(jobs) : a[t] # None}
    IN  SumSet([t \in on |-> task[t].value], on)

\* The optimum of the model optimal_algorithm builds.
MaxWelfare(jobs, srvs) ==
    SetMax({Welfare(a, jobs) : a \in FeasibleAllocations(jobs, srvs)})

\* reset_model(jobs, servers): FixedJob.reset_allocation for every job (the
\* running server is forgotten, the price is kept) and
\* Server.reset_allocations for every server.
ResetModel(st) ==
    [running_server |-> [t \in DOMAIN st.running_server |-> None],
     allocated_tasks |-> [s \in DOMAIN st.allocated_tasks |-> << >>]]

\* The allocation loop of optimal_algorithm: every job the solution places
\* gets job.running_server = server and server.allocate_job(job).
AllocateSolution(st, jobs, a) ==
    [running_server |->
        [t \in DOMAIN st.running_server |->
            IF t \in Range(jobs) /\ a[t] # None THEN a[t]
            ELSE st.running_server[t]],
     allocated_tasks |->
        [s \in DOMAIN st.allocated_tasks |->
            st.allocated_tasks[s] \o JobsOn(a, jobs, s)]]

\* What optimal_algorithm returns:
\* sum(job.value for job in jobs if job.running_server).
RECURSIVE ReturnedWelfare(_, _)
ReturnedWelfare(st, jobs) ==
    IF jobs = << >> THEN 0
    ELSE (IF st.running_server[Head(jobs)] # None
          THEN task[Head(jobs)].value ELSE 0)
            + ReturnedWelfare(st, Tail(jobs))

\* list_copy_remove without its remove: the copy keeps the item.
list_copy_keep(lists, item) == lists

\* list_copy_remove(lists, item)
list_copy_remove(lists, item) == SelectSeq(lists, LAMBDA x : x # item)

\* The job price without the subtraction of optimal_prime.
JobPriceForgetsPrime(optimal, optimal_prime) == optimal

\* job_prices[job] = optimal_solution - optimal_prime
JobPrice(optimal, optimal_prime) == optimal - optimal_prime

\* server_revenues[server] = optimal_solution - optimal_prime
ServerRevenue(optimal, optimal_prime) == optimal - optimal_prime

\* The allocation state of the population.
Current == [running_server |-> running_server,
            allocated_tasks |-> allocated_tasks]

\* A dictionary with one more entry.
Put(dict, key, val) ==
    [k \in DOMAIN dict \cup {key} |-> IF k = key THEN val ELSE dict[k]]

\* The time limits the auction is called with, in seconds.
TimeLimits == {2, 15}

\* The state a fixed VCG auction starts in: a fresh population.
InitVCG ==
    /\ \E nt \in 0..MaxJobs, ns \in 0..MaxVcgServers :
        /\ tasks = [i \in 1..nt |-> i]
        /\ servers = [i \in 1..ns |-> i]
        /\ task \in [1..nt -> JobTypes]
        /\ server \in [1..ns -> VcgServerTypes]
        /\ speed = [t \in 1..nt |-> <<0, 0, 0>>]
        /\ running_server = [t \in 1..nt |-> None]
        /\ price = [t \in 1..nt |-> 0]
        /\ allocated_tasks = [s \in 1..ns |-> << >>]
    /\ unallocated_tasks = << >>
    /\ rounds = 0
    /\ dia_pc = "idle"
    /\ dia_task = None
    /\ min_price = -1
    /\ min_server = None
    /\ min_speeds = << >>
    /\ branch = "none"
    /\ quote_failed = FALSE
    /\ vcg_pc = "fix"
    /\ optimal_solution = 0
    /\ allocated_jobs = << >>
    /\ job_allocation = << >>
    /\ job_prices = << >>
    /\ server_revenues = << >>
    /\ job_i = 0
    /\ server_i = 0
    /\ failure = FALSE
    /\ first_solution = << >>
    /\ sub_welfare = << >>
    /\ inexact_solves = 0
    /\ time_limit \in TimeLimits
    /\ solve_time_limit = NoSolve
    /\ LibIdle

\* fixed_jobs = [FixedJob(job, servers) for job in jobs]: every job gets its
\* fixed speeds.
VcgFixJobs ==
    /\ vcg_pc = "fix"
    /\ IF tasks = << >> THEN TRUE
       ELSE /\ servers # << >>
            /\ \A t \in Range(tasks) : FixedSpeedChoices(t, servers) # {}
    /\ \E sp \in [Range(tasks) ->
                    UNION {FixedSpeedChoices(t, servers) : t \in Range(tasks)}] :
        /\ \A t \in Range(tasks) : sp[t] \in FixedSpeedChoices(t, servers)
        /\ speed' = sp
    /\ vcg_pc' = "optimal"
    /\ UNCHANGED <<tasks, servers, task, server, running_server, price,
                   allocated_tasks, diaVars, libVars, optimal_solution,
                   allocated_jobs, job_allocation, job_prices,
                   server_revenues, job_i, server_i, failure,
                   first_solution, sub_welfare, inexact_solves,
                   time_limit, solve_time_limit>>

\* FixedJob.__init__ raises ValueError: max() of no server, or min() of no
\* triple that meets the deadline.
VcgFixJobsRaise ==
    /\ vcg_pc = "fix"
    /\ tasks # << >>
    /\ IF servers = << >> THEN TRUE
       ELSE \E t \in Range(tasks) : FixedSpeedChoices(t, servers) = {}
    /\ vcg_pc' = "ValueError"
    /\ UNCHANGED <<domainVars, diaVars, libVars, optimal_solution, allocated_jobs,
                   job_allocation, job_prices, server_revenues, job_i,
                   server_i, failure, first_solution, sub_welfare,
                   inexact_solves,
                   time_limit, solve_time_limit>>

\* Every solve so far ended at an exact optimum.
all_exact == inexact_solves = 0

\* What a solve leaves in the history: the objective value of the solution
\* it ended with, and whether that is the optimum of the model.
Solved(key, a, jobs, optimum) ==
    /\ sub_welfare' = Put(sub_welfare, key, Welfare(a, jobs))
    /\ inexact_solves' =
         inexact_solves + (IF Welfare(a, jobs) = optimum THEN 0 ELSE 1)
    /\ inexact_solves' <= MaxInexact

\* The first solve, optimal_algorithm(fixed_jobs, servers), ends FEASIBLE or
\* OPTIMAL with some solution of the model; the optimum and the allocation
\* are saved.
VcgOptimal ==
    /\ vcg_pc = "optimal"
    /\ LET optimum == MaxWelfare(tasks, servers)
       IN  \E a \in FeasibleAllocations(tasks, servers) :
        LET st == AllocateSolution(Current, tasks, a)
        IN  /\ running_server' = st.running_server
            /\ allocated_tasks' = st.allocated_tasks
            /\ optimal_solution' = ReturnedWelfare(st, tasks)
            /\ allocated_jobs' =
                 SelectSeq(tasks, LAMBDA t : st.running_server[t] # None)
            /\ job_allocation' = st.running_server
            /\ first_solution' = a
            /\ Solved(<<"full", 0>>, a, tasks, optimum)
    /\ vcg_pc' = "pricing"
    /\ job_i' = 1
    /\ server_i' = 1
    /\ solve_time_limit' = TimeLimitValue(time_limit)
    /\ UNCHANGED <<tasks, servers, task, server, speed, price, diaVars, libVars,
                   job_prices, server_revenues, failure,
                   time_limit>>

\* The first solve ends UNKNOWN: the auction returns None.
VcgOptimalUnknown ==
    /\ vcg_pc = "optimal"
    /\ vcg_pc' = "none"
    /\ solve_time_limit' = TimeLimitValue(time_limit)
    /\ UNCHANGED <<domainVars, diaVars, libVars, optimal_solution, allocated_jobs,
                   job_allocation, job_prices, server_revenues, job_i,
                   server_i, failure, first_solution, sub_welfare,
                   inexact_solves,
                   time_limit>>

\* One turn of the loop over the allocated jobs: the model is reset, the
\* optimum without the job is solved and the job's price is recorded.
VcgJob ==
    /\ vcg_pc = "pricing"
    /\ job_i <= Len(allocated_jobs)
    /\ LET job == allocated_jobs[job_i]
           jobs_prime == list_copy_remove(tasks, job)
           optimum == MaxWelfare(jobs_prime, servers)
       IN  \E a \in FeasibleAllocations(jobs_prime, servers) :
            LET st == AllocateSolution(ResetModel(Current), jobs_prime, a)
                optimal_prime == ReturnedWelfare(st, jobs_prime)
            IN  /\ running_server' = st.running_server
                /\ allocated_tasks' = st.allocated_tasks
                /\ job_prices' =
                     Put(job_prices, job,
                         JobPrice(optimal_solution, optimal_prime))
                /\ Solved(<<"job", job>>, a, jobs_prime, optimum)
    /\ job_i' = job_i + 1
    /\ solve_time_limit' = TimeLimitValue(time_limit)
    /\ UNCHANGED <<tasks, servers, task, server, speed, price, diaVars, libVars,
                   vcg_pc, optimal_solution, allocated_jobs, job_allocation,
                   server_revenues, server_i, failure, first_solution,
                   time_limit>>

\* The solve without the job ends UNKNOWN: the model stays reset and the
\* auction returns None.
VcgJobUnknown ==
    /\ vcg_pc = "pricing"
    /\ job_i <= Len(allocated_jobs)
    /\ running_server' = ResetModel(Current).running_server
    /\ allocated_tasks' = ResetModel(Current).allocated_tasks
    /\ vcg_pc' = "none"
    /\ solve_time_limit' = TimeLimitValue(time_limit)
    /\ UNCHANGED <<tasks, servers, task, server, speed, price, diaVars, libVars,
                   optimal_solution, allocated_jobs, job_allocation,
                   job_prices, server_revenues, job_i, server_i, failure,
                   first_solution, sub_welfare, inexact_solves,
                   time_limit>>

\* One turn of the loop over the servers: the model is reset, the optimum
\* without the server is solved and the server's revenue is recorded.  The
\* call passes time_limit=time, the function imported from the time module:
\* the solver either runs with it (this action, or VcgServerUnknown) or
\* refuses it (VcgServerRaise).
VcgServer ==
    /\ vcg_pc = "pricing"
    /\ job_i > Len(allocated_jobs)
    /\ server_i <= Len(servers)
    /\ LET srv == servers[server_i]
           servers_prime == list_copy_remove(servers, srv)
           optimum == MaxWelfare(tasks, servers_prime)
       IN  \E a \in FeasibleAllocations(tasks, servers_prime) :
            LET st == AllocateSolution(ResetModel(Current), tasks, a)
                optimal_prime == ReturnedWelfare(st, tasks)
            IN  /\ running_server' = st.running_server
                /\ allocated_tasks' = st.allocated_tasks
                /\ server_revenues' =
                     Put(server_revenues, srv,
                         ServerRevenue(optimal_solution, optimal_prime))
                /\ Solved(<<"server", srv>>, a, tasks, optimum)
    /\ server_i' = server_i + 1
    /\ solve_time_limit' = TimeFunction
    /\ UNCHANGED <<tasks, servers, task, server, speed, price, diaVars, libVars,
                   vcg_pc, optimal_solution, allocated_jobs, job_allocation,
                   job_prices, job_i, failure, first_solution,
                   time_limit>>

\* The solve without the server ends UNKNOWN: the auction returns None.
VcgServerUnknown ==
    /\ vcg_pc = "pricing"
    /\ job_i > Len(allocated_jobs)
    /\ server_i <= Len(servers)
    /\ running_server' = ResetModel(Current).running_server
    /\ allocated_tasks' = ResetModel(Current).allocated_tasks
    /\ vcg_pc' = "none"
    /\ solve_time_limit' = TimeFunction
    /\ UNCHANGED <<tasks, servers, task, server, speed, price, diaVars, libVars,
                   optimal_solution, allocated_jobs, job_allocation,
                   job_prices, server_revenues, job_i, server_i, failure,
                   first_solution, sub_welfare, inexact_solves,
                   time_limit>>

\* The solver refuses a time limit that is a function: the solve raises.
VcgServerRaise ==
    /\ vcg_pc = "pricing"
    /\ job_i > Len(allocated_jobs)
    /\ server_i <= Len(servers)
    /\ running_server' = ResetModel(Current).running_server
    /\ allocated_tasks' = ResetModel(Current).allocated_tasks
    /\ vcg_pc' = "SolverError"
    /\ solve_time_limit' = TimeFunction
    /\ UNCHANGED <<tasks, servers, task, server, speed, price, diaVars, libVars,
                   optimal_solution, allocated_jobs, job_allocation,
                   job_prices, server_revenues, job_i, server_i, failure,
                   first_solution, sub_welfare, inexact_solves,
                   time_limit>>

\* The end of the auction without its reset_model: the saved allocation is
\* laid over whatever the last sub-solve left.
RestoreWithoutReset(st) ==
    AllocateSolution(st, allocated_jobs, job_allocation)

\* The end of the auction: the model is reset and every job of the first
\* optimum is allocated to its saved server.
RestoreAllocation(st) ==
    AllocateSolution(ResetModel(st), allocated_jobs, job_allocation)

\* The price allocate(job, -1, -1, -1, server, price) stamps on each of them.
StampPrices ==
    [t \in DOMAIN price |->
        IF t \in Range(allocated_jobs) THEN job_prices[t] ELSE price[t]]

\* sum(job_prices.values()) != sum(server_revenues.values())
BalanceFails ==
    SumSet(job_prices, DOMAIN job_prices)
        # SumSet(server_revenues, DOMAIN server_revenues)

\* Both loops are done: the first optimum is restored with its prices and the
\* Result is returned with its failure flag.
VcgFinish ==
    /\ vcg_pc = "pricing"
    /\ job_i > Len(allocated_jobs)
    /\ server_i > Len(servers)
    /\ running_server' = RestoreAllocation(Current).running_server
    /\ allocated_tasks' = RestoreAllocation(Current).allocated_tasks
    /\ price' = StampPrices
    /\ failure' = BalanceFails
    /\ vcg_pc' = "result"
    /\ UNCHANGED <<tasks, servers, task, server, speed, diaVars, libVars,
                   optimal_solution, allocated_jobs, job_allocation,
                   job_prices, server_revenues, job_i, server_i,
                   first_solution, sub_welfare, inexact_solves,
                   time_limit, solve_time_limit>>

NextVCG ==
    \/ VcgFixJobs
    \/ VcgFixJobsRaise
    \/ VcgOptimal
    \/ VcgOptimalUnknown
    \/ VcgJob
    \/ VcgJobUnknown
    \/ VcgServer
    \/ VcgServerUnknown
    \/ VcgServerRaise
    \/ VcgFinish

SpecVCG == InitVCG /\ [][NextVCG]_vars

\* ------------------------------------------------------------- PriorityQueue
\* The PriorityQueue objects in use, the data pushed and the most operations
\* of one run.
MaxPqOps == 5
PqInstances == {1, 2}
PqData == {1, 2, 3}

\* No population and no auction: the state around a library call.
NoPopulation ==
    /\ tasks = << >>
    /\ servers = << >>
    /\ task = << >>
    /\ server = << >>
    /\ speed = << >>
    /\ running_server = << >>
    /\ price = << >>
    /\ allocated_tasks = << >>

\* dia_solver is not running.
DiaIdle ==
    /\ unallocated_tasks = << >>
    /\ rounds = 0
    /\ dia_pc = "idle"
    /\ dia_task = None
    /\ min_price = -1
    /\ min_server = None
    /\ min_speeds = << >>
    /\ branch = "none"
    /\ quote_failed = FALSE

\* Comparison.compare(value_1, value_2), the comparator the queues are
\* built with.
compare(value_1, value_2) ==
    IF value_1 > value_2 THEN "GREATER"
    ELSE IF value_2 > value_1 THEN "LESS"
    ELSE "EQUAL"

\* Positions are counted from 0, as in the source.
parent(pos) == (pos - 1) \div 2
left(pos) == 2 * pos + 1
right(pos) == 2 * pos + 2

\* self.queue[pos]
At(q, pos) == q[pos + 1]

\* PriorityQueue.swap
swap(q, child, par) ==
    [q EXCEPT ![child + 1] = q[par + 1], ![par + 1] = q[child + 1]]

RECURSIVE PushSift(_, _)
\* The while loop of push from position pos: the list it leaves and whether
\* self.queue[pos] raised IndexError.
PushSift(q, pos) ==
    IF pos <= 0 THEN [queue |-> q, raised |-> FALSE]
    ELSE IF pos >= Len(q) THEN [queue |-> q, raised |-> TRUE]
    ELSE IF compare(At(q, parent(pos)), At(q, pos)) = "GREATER"
         THEN PushSift(swap(q, pos, parent(pos)), parent(pos))
         ELSE [queue |-> q, raised |-> FALSE]

RECURSIVE PopSift(_, _, _)
\* The while loop of pop from position pos with the decremented size.
PopSift(q, size, pos) ==
    LET l == left(pos)
        r == right(pos)
        raise1 == l < size /\ l >= Len(q)
        largest1 == IF l < size /\ ~raise1
                       /\ compare(At(q, pos), At(q, l)) = "GREATER"
                    THEN l ELSE pos
        raise2 == r < size /\ r >= Len(q)
        largest == IF r < size /\ ~raise2
                      /\ compare(At(q, largest1), At(q, r)) = "GREATER"
                   THEN r ELSE largest1
    IN  IF raise1 \/ raise2 THEN [queue |-> q, raised |-> TRUE]
        ELSE IF largest = pos THEN [queue |-> q, raised |-> FALSE]
        ELSE PopSift(swap(q, pos, largest), size, largest)

\* A list without the first occurrence of x.
RemoveFirst(seq, x) ==
    IF \E k \in 1..Len(seq) : seq[k] = x
    THEN RemoveAt(seq, CHOOSE k \in 1..Len(seq) :
                          seq[k] = x /\ \A j \in 1..(k - 1) : seq[j] # x)
    ELSE seq

\* Two queues have been constructed; nothing has been pushed.
InitPQ ==
    /\ FnIdle
    /\ NoPopulation
    /\ DiaIdle
    /\ VcgIdle
    /\ RelaxedIdle
    /\ pq_queue = << >>
    /\ pq_size = [i \in PqInstances |-> 0]
    /\ pq_held = [i \in PqInstances |-> << >>]
    /\ pq_last = [op |-> "none", inst |-> 0, value |-> 0, held |-> << >>]
    /\ pq_pc = "run"
    /\ pq_ops = 0

\* What every operation records.
PqCalled(op, i, value, raised) ==
    /\ pq_last' = [op |-> op, inst |-> i, value |-> value,
                   held |-> pq_held[i]]
    /\ pq_pc' = IF raised THEN "IndexError" ELSE "run"
    /\ pq_ops' = pq_ops + 1

\* PriorityQueue.push(data) on instance i.
PqPush ==
    /\ pq_pc = "run"
    /\ pq_ops < MaxPqOps
    /\ \E i \in PqInstances, data \in PqData :
        LET size == pq_size[i] + 1
            sifted == PushSift(Append(pq_queue, data), size - 1)
        IN  /\ pq_queue' = sifted.queue
            /\ pq_size' = [pq_size EXCEPT ![i] = size]
            /\ pq_held' = [pq_held EXCEPT ![i] = Append(@, data)]
            /\ PqCalled("push", i, data, sifted.raised)
    /\ UNCHANGED notPqVars

\* PriorityQueue.pop() on an instance i that holds an element: the branch
\* for size 1 returns self.queue.pop(0) and leaves size as it is; the other
\* branch moves the last element to the head, decrements size and sifts.
PqPop ==
    /\ pq_pc = "run"
    /\ pq_ops < MaxPqOps
    /\ \E i \in PqInstances :
        /\ pq_held[i] # << >>
        /\ IF pq_queue = << >>
           THEN /\ PqCalled("pop", i, 0, TRUE)
                /\ UNCHANGED <<pq_queue, pq_size, pq_held>>
           ELSE IF pq_size[i] = 1
           THEN /\ pq_queue' = Tail(pq_queue)
                /\ pq_held' =
                     [pq_held EXCEPT ![i] = RemoveFirst(@, Head(pq_queue))]
                /\ PqCalled("pop", i, Head(pq_queue), FALSE)
                /\ UNCHANGED pq_size
           ELSE IF Len(pq_queue) = 1
           THEN /\ pq_queue' = << >>
                /\ PqCalled("pop", i, 0, TRUE)
                /\ UNCHANGED <<pq_size, pq_held>>
           ELSE LET pop_value == Head(pq_queue)
                    moved == [SubSeq(pq_queue, 1, Len(pq_queue) - 1)
                                EXCEPT ![1] = pq_queue[Len(pq_queue)]]
                    size == pq_size[i] - 1
                    sifted == PopSift(moved, size, 0)
                IN  /\ pq_queue' = sifted.queue
                    /\ pq_size' = [pq_size EXCEPT ![i] = size]
                    /\ pq_held' =
                         IF sifted.raised THEN pq_held
                         ELSE [pq_held EXCEPT
                                 ![i] = RemoveFirst(@, pop_value)]
                    /\ PqCalled("pop", i,
                                IF sifted.raised THEN 0 ELSE pop_value,
                                sifted.raised)
    /\ UNCHANGED notPqVars

NextPQ == PqPush \/ PqPop

SpecPQ == InitPQ /\ [][NextPQ]_vars

\* --------------------------------------------------------- relaxed_algorithm
\* The largest task list and server list relaxed_algorithm is called with,
\* and the tasks and servers it draws from.
MaxRelaxedTasks == 2
MaxRelaxedServers == 2
RelaxedTaskTypes ==
    [S : {1}, C : {1}, R : {1}, value : {1, 4}, deadline : {1, 3}]
RelaxedServerTypes ==
    [storage_capacity : {1, 2}, computation_capacity : {1},
     bandwidth_capacity : {2}, price_change : {1}, initial_price : {25}]

\* SuperServer(servers): one server whose capacities are the sums of the
\* capacities of the servers.
SuperServer(srvs) ==
    [storage_capacity |->
        SumSeq([s \in Range(srvs) |-> server[s].storage_capacity], srvs),
     computation_capacity |->
        SumSeq([s \in Range(srvs) |-> server[s].computation_capacity], srvs),
     bandwidth_capacity |->
        SumSeq([s \in Range(srvs) |-> server[s].bandwidth_capacity], srvs)]

\* The id the tasks' running_server takes for the super server.
SuperServerId == Len(servers) + 1

\* The domains of the three speed variables of every task.
RelaxedSpeedDomain(ss) ==
    (1..ss.bandwidth_capacity) \X (1..ss.computation_capacity)
        \X (1..ss.bandwidth_capacity)

\* The solutions of the model, as far as the allocation loop reads them: the
\* allocated tasks and their speeds.  Every task of the list, allocated or
\* not, needs speeds in the domain that meet its deadline; the allocated
\* ones share the super server's three capacities.
RelaxedSolutions ==
    LET ss == SuperServer(servers)
        dom == RelaxedSpeedDomain(ss)
        all == Range(tasks)
    IN  {sol \in UNION {[alloc : {A}, sp : [A -> dom]] : A \in SUBSET all} :
            /\ \A t \in all \ sol.alloc : \E sp \in dom : DeadlineOK(t, sp)
            /\ \A t \in sol.alloc : DeadlineOK(t, sol.sp[t])
            /\ SumSet([t \in all |-> task[t].S], sol.alloc)
                 <= ss.storage_capacity
            /\ SumSet([t \in sol.alloc |-> sol.sp[t][2]], sol.alloc)
                 <= ss.computation_capacity
            /\ SumSet([t \in sol.alloc |-> sol.sp[t][1] + sol.sp[t][3]],
                      sol.alloc)
                 <= ss.bandwidth_capacity}

\* The objective of a solution: the values of the allocated tasks.
RelaxedWelfare(alloc) == SumSet([t \in alloc |-> task[t].value], alloc)

\* relaxed_algorithm is called on a fresh population.
InitRelaxed ==
    /\ \E nt \in 0..MaxRelaxedTasks, ns \in 0..MaxRelaxedServers :
        /\ tasks = [i \in 1..nt |-> i]
        /\ servers = [i \in 1..ns |-> i]
        /\ task \in [1..nt -> RelaxedTaskTypes]
        /\ server \in [1..ns -> RelaxedServerTypes]
        /\ speed = [t \in 1..nt |-> <<0, 0, 0>>]
        /\ running_server = [t \in 1..nt |-> None]
        /\ price = [t \in 1..nt |-> 0]
        /\ allocated_tasks = [s \in 1..ns |-> << >>]
    /\ DiaIdle
    /\ VcgIdle
    /\ PqIdle
    /\ FnIdle
    /\ relaxed_pc = "call"
    /\ relaxed_status = "none"
    /\ super_tasks = << >>

\* The solve ends FEASIBLE or OPTIMAL with a solution: every task the
\* solution allocates gets its speeds and the super server, in list order,
\* and the Result is returned.
RelaxedSolve ==
    /\ relaxed_pc = "call"
    /\ \E sol \in RelaxedSolutions :
        /\ speed' = [t \in DOMAIN speed |->
                        IF t \in sol.alloc THEN sol.sp[t] ELSE speed[t]]
        /\ running_server' =
             [t \in DOMAIN running_server |->
                IF t \in sol.alloc THEN SuperServerId ELSE running_server[t]]
        /\ super_tasks' = SelectSeq(tasks, LAMBDA t : t \in sol.alloc)
        /\ relaxed_status' =
             IF \A other \in RelaxedSolutions :
                    RelaxedWelfare(other.alloc) <= RelaxedWelfare(sol.alloc)
             THEN "Optimal" ELSE "Feasible"
    /\ relaxed_pc' = "result"
    /\ UNCHANGED <<tasks, servers, task, server, price, allocated_tasks,
                   notRelaxedVars>>

\* The model has no solution: relaxed_algorithm prints and returns None.
RelaxedInfeasible ==
    /\ relaxed_pc = "call"
    /\ RelaxedSolutions = {}
    /\ relaxed_status' = "Infeasible"
    /\ relaxed_pc' = "none"
    /\ UNCHANGED <<domainVars, super_tasks, notRelaxedVars>>

\* The time limit passes before a solution is found: None is returned.
RelaxedUnknown ==
    /\ relaxed_pc = "call"
    /\ RelaxedSolutions # {}
    /\ relaxed_status' = "Unknown"
    /\ relaxed_pc' = "none"
    /\ UNCHANGED <<domainVars, super_tasks, notRelaxedVars>>

NextRelaxed == RelaxedSolve \/ RelaxedInfeasible \/ RelaxedUnknown

SpecRelaxed == InitRelaxed /\ [][NextRelaxed]_vars

\* ------------------------------------------------------------ rand_list_max
\* The longest list rand_list_max is called with, and the values key(arg)
\* takes: None, or a number.
MaxArgs == 3
ArgValues == {None, 1, 2, 3}

RECURSIVE RandListMaxLoop(_, _, _, _)
\* The for loop from position i on, with the solution list (positions of
\* args) and the value held so far.  `arg_value > value` with value None
\* raises TypeError; a greater value and an equal value both replace the
\* solution list by [arg].
RandListMaxLoop(args, i, solution, value) ==
    IF i > Len(args) THEN [raised |-> FALSE, solution |-> solution]
    ELSE LET arg_value == args[i]
         IN  IF arg_value = None
             THEN RandListMaxLoop(args, i + 1, <<i>>, arg_value)
             ELSE IF value = None
             THEN [raised |-> TRUE, solution |-> solution]
             ELSE IF arg_value > value
             THEN RandListMaxLoop(args, i + 1, <<i>>, arg_value)
             ELSE IF arg_value = value
             THEN RandListMaxLoop(args, i + 1, <<i>>, value)
             ELSE RandListMaxLoop(args, i + 1, solution, value)

\* rand_list_max is called once on a list of at most MaxArgs elements;
\* args[i] is key(arg) of the i-th element.
InitRandListMax ==
    /\ NoPopulation
    /\ DiaIdle
    /\ VcgIdle
    /\ PqIdle
    /\ RelaxedIdle
    /\ fn_pc = "call"
    /\ \E n \in 0..MaxArgs : \E args \in [1..n -> ArgValues] :
        fn_call = [op |-> "rand_list_max", args |-> args, result |-> 0]

\* The loop ends and choice(solution) returns one element of the solution.
RandListMaxReturn ==
    /\ fn_pc = "call"
    /\ fn_call.op = "rand_list_max"
    /\ LET end == RandListMaxLoop(fn_call.args, 1, << >>, None)
       IN  /\ ~end.raised
           /\ \E i \in Range(end.solution) :
                fn_call' = [fn_call EXCEPT !.result = i]
    /\ fn_pc' = "returned"
    /\ UNCHANGED <<domainVars, notFnVars>>

\* The comparison of a number with None raises TypeError.
RandListMaxTypeError ==
    /\ fn_pc = "call"
    /\ fn_call.op = "rand_list_max"
    /\ RandListMaxLoop(fn_call.args, 1, << >>, None).raised
    /\ fn_pc' = "TypeError"
    /\ UNCHANGED <<fn_call, domainVars, notFnVars>>

\* choice([]) raises IndexError: the list was empty.
RandListMaxIndexError ==
    /\ fn_pc = "call"
    /\ fn_call.op = "rand_list_max"
    /\ LET end == RandListMaxLoop(fn_call.args, 1, << >>, None)
       IN  ~end.raised /\ end.solution = << >>
    /\ fn_pc' = "IndexError"
    /\ UNCHANGED <<fn_call, domainVars, notFnVars>>

NextRandListMax ==
    RandListMaxReturn \/ RandListMaxTypeError \/ RandListMaxIndexError

SpecRandListMax == InitRandListMax /\ [][NextRandListMax]_vars

\* ---------------------------------------------------------------- FixedTask
\* The most fixed tasks and servers of a population, and the prices a fixed
\* task is allocated with (None: allocate is called without a price).
MaxFixedTasks == 2
MaxFixedServers == 2
FixedPrices == {None, 2, 5}

\* What allocate and reset_allocation read and write of a fixed task.
FixedState(t) == [running_server |-> running_server[t], price |-> price[t]]

\* reset_allocation with forgot_price true for every call.
reset_allocation_forgetful(st, forgot_price) ==
    [running_server |-> None, price |-> 0]

\* FixedTask.reset_allocation: the running server is cleared, the price only
\* when forgot_price is true; the speeds stay.
reset_allocation(st, forgot_price) ==
    [running_server |-> None,
     price |-> IF forgot_price THEN 0 ELSE st.price]

\* FixedTask.allocate: the three speeds are ignored, the running server is
\* set, the price only when one is given.
allocate(st, server_id, new_price) ==
    [running_server |-> server_id,
     price |-> IF new_price # None THEN new_price ELSE st.price]

\* Fixed tasks after construction: no running server, price 0.
InitFixedTask ==
    /\ \E nt \in 1..MaxFixedTasks, ns \in 1..MaxFixedServers :
        /\ tasks = [i \in 1..nt |-> i]
        /\ servers = [i \in 1..ns |-> i]
        /\ task = [i \in 1..nt |->
                     [S |-> 1, C |-> 1, R |-> 1, value |-> 4, deadline |-> 3]]
        /\ server = [i \in 1..ns |->
                       [storage_capacity |-> 2, computation_capacity |-> 2,
                        bandwidth_capacity |-> 3, price_change |-> 1,
                        initial_price |-> 25]]
        /\ speed = [t \in 1..nt |-> <<1, 1, 1>>]
        /\ running_server = [t \in 1..nt |-> None]
        /\ price = [t \in 1..nt |-> 0]
        /\ allocated_tasks = [s \in 1..ns |-> << >>]
    /\ DiaIdle
    /\ VcgIdle
    /\ PqIdle
    /\ RelaxedIdle
    /\ fn_pc = "run"
    /\ fn_call = [op |-> "none"]

\* The record of a call on task t: the operation, its arguments, the task's
\* state before it, and whether it repeats the call before it.
FixedCalled(op, t, arg) ==
    [op |-> op, task |-> t, arg |-> arg, before |-> FixedState(t),
     repeat |-> /\ fn_call.op = op
                /\ fn_call.task = t
                /\ fn_call.arg = arg]

\* task.allocate(_, _, _, running_server, price) on a task without a server.
FixedAllocate ==
    /\ fn_pc = "run"
    /\ \E t \in Range(tasks), s \in Range(servers), p \in FixedPrices :
        /\ running_server[t] = None
        /\ LET st == allocate(FixedState(t), s, p)
           IN  /\ running_server' =
                    [running_server EXCEPT ![t] = st.running_server]
               /\ price' = [price EXCEPT ![t] = st.price]
        /\ fn_call' = FixedCalled("allocate", t, <<s, p>>)
    /\ UNCHANGED <<tasks, servers, task, server, speed, allocated_tasks,
                   fn_pc, notFnVars>>

\* task.allocate on a task that has a server: the assertion fails.
FixedAllocateAssert ==
    /\ fn_pc = "run"
    /\ \E t \in Range(tasks), s \in Range(servers), p \in FixedPrices :
        /\ running_server[t] # None
        /\ fn_call' = FixedCalled("allocate", t, <<s, p>>)
    /\ fn_pc' = "AssertionError"
    /\ UNCHANGED <<domainVars, notFnVars>>

\* task.reset_allocation(forgot_price).
FixedReset ==
    /\ fn_pc = "run"
    /\ \E t \in Range(tasks), forgot_price \in BOOLEAN :
        /\ LET st == reset_allocation(FixedState(t), forgot_price)
           IN  /\ running_server' =
                    [running_server EXCEPT ![t] = st.running_server]
               /\ price' = [price EXCEPT ![t] = st.price]
        /\ fn_call' = FixedCalled("reset_allocation", t, forgot_price)
    /\ UNCHANGED <<tasks, servers, task, server, speed, allocated_tasks,
                   fn_pc, notFnVars>>

NextFixedTask == FixedAllocate \/ FixedAllocateAssert \/ FixedReset

SpecFixedTask == InitFixedTask /\ [][NextFixedTask]_vars

\* ------------------------------------------- optimal_task_price, one call
\* The most residents of the server a quote is asked from, the tasks and
\* servers the call draws from, and the prices of the residents.
MaxResidents == 2
QuoteTaskTypes ==
    [S : {1, 2}, C : {1}, R : {1}, value : {4}, deadline : {3}]
QuoteServerTypes ==
    [storage_capacity : {2, 3}, computation_capacity : {2},
     bandwidth_capacity : {4}, price_change : {1}, initial_price : {25}]
ResidentPrices == {1, 3}

\* A server holds its residents: every resident runs at speeds of at least
\* 1 that meet its deadline, and the residents share the three capacities.
HoldsResidents(s, residents, sp) ==
    /\ \A t \in residents :
        /\ sp[t][1] >= 1 /\ sp[t][2] >= 1 /\ sp[t][3] >= 1
        /\ DeadlineOK(t, sp[t])
    /\ SumSet([t \in residents |-> task[t].S], residents)
         <= server[s].storage_capacity
    /\ SumSet([t \in residents |-> sp[t][2]], residents)
         <= server[s].computation_capacity
    /\ SumSet([t \in residents |-> sp[t][1] + sp[t][3]], residents)
         <= server[s].bandwidth_capacity

\* optimal_task_price is called for the last task of the list on server 1,
\* which holds the other tasks as priced residents.
InitQuote ==
    /\ \E nr \in 0..MaxResidents :
        /\ tasks = [i \in 1..(nr + 1) |-> i]
        /\ servers = <<1>>
        /\ task \in [1..(nr + 1) -> QuoteTaskTypes]
        /\ server \in [{1} -> QuoteServerTypes]
        /\ speed \in [1..(nr + 1) ->
                        {<<0, 0, 0>>}
                        \cup ((1..3) \X (1..2) \X (1..3))]
        /\ speed[nr + 1] = <<0, 0, 0>>
        /\ \A t \in 1..nr : speed[t] # <<0, 0, 0>>
        /\ HoldsResidents(1, 1..nr, speed)
        /\ running_server = [t \in 1..(nr + 1) |->
                               IF t <= nr THEN 1 ELSE None]
        /\ price \in [1..(nr + 1) -> ResidentPrices \cup {0}]
        /\ price[nr + 1] = 0
        /\ \A t \in 1..nr : price[t] \in ResidentPrices
        /\ allocated_tasks = [s \in {1} |-> [i \in 1..nr |-> i]]
        /\ fn_call = [op |-> "optimal_task_price", new_task |-> nr + 1,
                      server |-> 1, status |-> "none", result |-> 0]
    /\ DiaIdle
    /\ VcgIdle
    /\ PqIdle
    /\ RelaxedIdle
    /\ fn_pc = "call"

\* The statuses a solve can end with when optimal_task_price returns the
\* price p, quotes being every price it can return: math.inf comes from the
\* time limit or from a model without solution; a quote comes from a
\* solution, which the solve can prove optimal only when no solution has a
\* greater objective, that is no quote is lower.
QuoteStatuses(quotes, p) ==
    IF p = Inf
    THEN {"Unknown"} \cup {st \in {"Infeasible"} : quotes = {Inf}}
    ELSE {"Feasible"} \cup {st \in {"Optimal"} : \A other \in quotes : p <= other}

\* The call returns; of the returned pair the price is kept.
QuoteReturn ==
    /\ fn_pc = "call"
    /\ fn_call.op = "optimal_task_price"
    /\ LET quotes == {q.price : q \in optimal_task_price(fn_call.new_task,
                                                          fn_call.server)}
       IN  \E p \in quotes : \E st \in QuoteStatuses(quotes, p) :
            fn_call' = [fn_call EXCEPT !.status = st, !.result = p]
    /\ fn_pc' = "returned"
    /\ UNCHANGED <<domainVars, notFnVars>>

NextQuote == QuoteReturn

SpecQuote == InitQuote /\ [][NextQuote]_vars

\* --------------------------------------- greedy and critical value auction
\* The largest task list and server list of a critical value auction, the
\* largest value a task declares, and the tasks and servers drawn from.
MaxCvTasks == 3
MaxCvServers == 2
MaxValue == 3
CvTaskTypes ==
    [S : {1, 2}, C : {1}, R : {1}, value : {1, MaxValue}, deadline : {3}]
CvServerTypes ==
    [storage_capacity : {2}, computation_capacity : {2},
     bandwidth_capacity : {4}, price_change : {1}, initial_price : {25}]

\* An allocation in the making: for every task its server (or None) and
\* its speeds.
NoAllocation == [t \in Range(tasks) |-> [server |-> None, sp |-> <<0, 0, 0>>]]

\* available_storage, available_computation, available_bandwidth of s.
Available(s, alloc) ==
    LET on == {t \in Range(tasks) : alloc[t].server = s}
    IN  [storage |-> server[s].storage_capacity
                       - SumSet([t \in on |-> task[t].S], on),
         computation |-> server[s].computation_capacity
                           - SumSet([t \in on |-> alloc[t].sp[2]], on),
         bandwidth |-> server[s].bandwidth_capacity
                         - SumSet([t \in on |->
                                     alloc[t].sp[1] + alloc[t].sp[3]], on)]

\* The speeds the resource allocation model of t on s ranges over: loading
\* and sending from 1 to available_bandwidth - 1, compute from 1 to
\* available_computation, the deadline met, loading + sending within the
\* available bandwidth.
AllocationSpeeds(t, s, alloc) ==
    LET a == Available(s, alloc)
    IN  {sp \in (1..(a.bandwidth - 1)) \X (1..a.computation)
                  \X (1..(a.bandwidth - 1)) :
            DeadlineOK(t, sp) /\ sp[1] + sp[3] <= a.bandwidth}

\* Server.can_run(task): the storage fits and some speeds are feasible.
can_run(t, s, alloc) ==
    /\ task[t].S <= Available(s, alloc).storage
    /\ AllocationSpeeds(t, s, alloc) # {}

\* SumPercentage.resource_evaluator, times available_computation times
\* available_bandwidth.
resource_evaluator(a, sp) ==
    sp[2] * a.bandwidth + (sp[1] + sp[3]) * a.computation

\* ResourceAllocationPolicy.allocate: speeds that minimise the evaluator.
ResourceAllocate(t, s, alloc) ==
    LET a == Available(s, alloc)
        sps == AllocationSpeeds(t, s, alloc)
    IN  CHOOSE sp \in sps :
            \A other \in sps :
                resource_evaluator(a, sp) <= resource_evaluator(a, other)

\* SumResources.value.
SumResourcesValue(s, alloc) ==
    LET a == Available(s, alloc)
    IN  a.storage + a.computation + a.bandwidth

\* ServerSelectionPolicy.select, minimising: the first server of the list,
\* among those that can run the task, with the least value; None without
\* one.
select(t, alloc) ==
    LET runnable == {i \in 1..Len(servers) : can_run(t, servers[i], alloc)}
    IN  IF runnable = {} THEN None
        ELSE servers[CHOOSE i \in runnable :
                \A j \in runnable :
                    \/ SumResourcesValue(servers[i], alloc)
                         < SumResourcesValue(servers[j], alloc)
                    \/ /\ SumResourcesValue(servers[i], alloc)
                            = SumResourcesValue(servers[j], alloc)
                       /\ i <= j]

\* The value density of a task that declares value v: v per unit of
\* required resources.  Density(t, v) > Density(u, w), cross-multiplied.
Resources(t) == task[t].S + task[t].C + task[t].R
DenserThan(t, v, u, w) == v * Resources(u) > w * Resources(t)

\* The sort puts the sparser task first.
PrecedesAscending(vals, t, u) ==
    \/ DenserThan(u, vals[u], t, vals[t])
    \/ (~DenserThan(t, vals[t], u, vals[u]) /\ t < u)

\* Tasks are processed in descending value density; the sort is stable, so
\* of two tasks of the same density the earlier of the list comes first.
Precedes(vals, t, u) ==
    \/ DenserThan(t, vals[t], u, vals[u])
    \/ (~DenserThan(u, vals[u], t, vals[t]) /\ t < u)

\* The task list sorted for the greedy loop.
Ranked(vals) ==
    [i \in 1..Len(tasks) |->
        CHOOSE t \in Range(tasks) :
            Cardinality({u \in Range(tasks) \ {t} : Precedes(vals, u, t)})
                = i - 1]

RECURSIVE GreedyLoop(_, _)
\* The greedy loop: every task in turn gets the selected server and the
\* allocated speeds, or stays unallocated when no server is selected.
GreedyLoop(order, alloc) ==
    IF order = << >> THEN alloc
    ELSE LET t == Head(order)
             s == select(t, alloc)
         IN  IF s = None THEN GreedyLoop(Tail(order), alloc)
             ELSE GreedyLoop(Tail(order),
                    [alloc EXCEPT ![t] =
                        [server |-> s,
                         sp |-> ResourceAllocate(t, s, alloc)]])

\* greedy_algorithm with the declared values vals.
Greedy(vals) == GreedyLoop(Ranked(vals), NoAllocation)

\* The values the tasks declare, and those with t's replaced by v.
DeclaredValues == [t \in Range(tasks) |-> task[t].value]
WithValue(t, v) == [DeclaredValues EXCEPT ![t] = v]

\* The critical value of an allocated task t: the least value, of those t
\* can declare, with which the greedy algorithm still allocates t.
CriticalValue(t) ==
    SetMin({v \in 0..MaxValue : Greedy(WithValue(t, v))[t].server # None})

\* A critical value auction is called on a fresh population.
InitCritical ==
    /\ \E nt \in 1..MaxCvTasks, ns \in 1..MaxCvServers :
        /\ tasks = [i \in 1..nt |-> i]
        /\ servers = [i \in 1..ns |-> i]
        /\ task \in [1..nt -> CvTaskTypes]
        /\ server \in [1..ns -> CvServerTypes]
        /\ speed = [t \in 1..nt |-> <<0, 0, 0>>]
        /\ running_server = [t \in 1..nt |-> None]
        /\ price = [t \in 1..nt |-> 0]
        /\ allocated_tasks = [s \in 1..ns |-> << >>]
    /\ DiaIdle
    /\ VcgIdle
    /\ PqIdle
    /\ RelaxedIdle
    /\ fn_pc = "call"
    /\ fn_call = [op |-> "critical_value_auction"]

\* The state of the population under the allocation alloc.
Allocated(alloc) ==
    /\ running_server' = [t \in Range(tasks) |-> alloc[t].server]
    /\ speed' = [t \in Range(tasks) |-> alloc[t].sp]
    /\ allocated_tasks' =
         [s \in Range(servers) |->
            SelectSeq(tasks, LAMBDA t : alloc[t].server = s)]

\* critical_value_auction: the allocation is the greedy algorithm's; the
\* price of an allocated task is its critical value, of an unallocated task
\* 0.
CriticalValueAuction ==
    /\ fn_pc = "call"
    /\ fn_call.op = "critical_value_auction"
    /\ LET alloc == Greedy(DeclaredValues)
       IN  /\ Allocated(alloc)
           /\ price' = [t \in Range(tasks) |->
                          IF alloc[t].server # None
                          THEN CriticalValue(t) ELSE 0]
    /\ fn_pc' = "auctioned"
    /\ UNCHANGED <<tasks, servers, task, server, fn_call, notFnVars>>

\* After the auction: reset_model(forgot_price=False), the value of a task
\* the auction allocated is replaced by v, greedy_algorithm runs again, and
\* the task gets its value back.
GreedyRerun ==
    /\ fn_pc = "auctioned"
    /\ \E t \in Range(tasks), v \in 0..MaxValue :
        /\ fn_call.op = "critical_value_auction" => running_server[t] # None
        /\ fn_call.op = "greedy_algorithm" => t \in fn_call.run_tasks
        /\ Allocated(Greedy(WithValue(t, v)))
        /\ fn_call' =
             [op |-> "greedy_algorithm", task |-> t, value |-> v,
              run_tasks |->
                 IF fn_call.op = "greedy_algorithm" THEN fn_call.run_tasks
                 ELSE {u \in Range(tasks) : running_server[u] # None}]
    /\ UNCHANGED <<tasks, servers, task, server, price, fn_pc, notFnVars>>

NextCritical == CriticalValueAuction \/ GreedyRerun

SpecCritical == InitCritical /\ [][NextCritical]_vars

\* -------------------------------------------- greedy_task_price, one call
\* The servers a greedy quote is asked from.
GreedyServerTypes ==
    [storage_capacity : {1, 3}, computation_capacity : {2},
     bandwidth_capacity : {4, 5}, price_change : {1}, initial_price : {25}]

\* greedy_task_price is called for the last task of the list on server 1,
\* which holds the other tasks as priced residents.
InitGreedyQuote ==
    /\ \E nr \in 0..MaxResidents :
        /\ tasks = [i \in 1..(nr + 1) |-> i]
        /\ servers = <<1>>
        /\ task \in [1..(nr + 1) -> QuoteTaskTypes]
        /\ server \in [{1} -> GreedyServerTypes]
        /\ speed \in [1..(nr + 1) ->
                        {<<0, 0, 0>>}
                        \cup ((1..3) \X (1..2) \X (1..3))]
        /\ speed[nr + 1] = <<0, 0, 0>>
        /\ \A t \in 1..nr : speed[t] # <<0, 0, 0>>
        /\ HoldsResidents(1, 1..nr, speed)
        /\ running_server = [t \in 1..(nr + 1) |->
                               IF t <= nr THEN 1 ELSE None]
        /\ price \in [1..(nr + 1) -> ResidentPrices \cup {0}]
        /\ price[nr + 1] = 0
        /\ \A t \in 1..nr : price[t] \in ResidentPrices
        /\ allocated_tasks = [s \in {1} |-> [i \in 1..nr |-> i]]
        /\ fn_call = [op |-> "greedy_task_price", new_task |-> nr + 1,
                      server |-> 1, result |-> 0, assigned |-> << >>,
                      kept |-> {}]
    /\ DiaIdle
    /\ VcgIdle
    /\ PqIdle
    /\ RelaxedIdle
    /\ fn_pc = "call"

\* PriceResourcePerDeadline.evaluate(t) < evaluate(u), cross-multiplied:
\* price * resources / deadline.
PriceDensityLess(t, u) ==
    price[t] * Resources(t) * task[u].deadline
        < price[u] * Resources(u) * task[t].deadline

\* sorted(tasks, key=price_density.evaluate): ascending and stable.
SortedByPriceDensity(residents) ==
    LET before(u, t) ==
            \/ PriceDensityLess(residents[u], residents[t])
            \/ (~PriceDensityLess(residents[t], residents[u]) /\ u < t)
    IN  [i \in 1..Len(residents) |->
            residents[CHOOSE t \in 1..Len(residents) :
                Cardinality({u \in 1..Len(residents) \ {t} : before(u, t)})
                    = i - 1]]

\* The speeds resource_allocation_policy.allocate(t, s) can return when its
\* solve is exact: the feasible speeds that minimise the evaluator.
MinimalSpeeds(t, s, alloc) ==
    LET a == Available(s, alloc)
        sps == AllocationSpeeds(t, s, alloc)
    IN  {sp \in sps :
            \A other \in sps :
                resource_evaluator(a, sp) <= resource_evaluator(a, other)}

\* allocate(t, s, w, r, server) meets its preconditions: the speeds meet
\* the task's deadline and the task fits in what the server has left.
AllocatePrecondition(t, sp, s, alloc) ==
    LET a == Available(s, alloc)
    IN  /\ DeadlineOK(t, sp)
        /\ task[t].S <= a.storage
        /\ sp[2] <= a.computation
        /\ sp[1] + sp[3] <= a.bandwidth

\* One call of allocate inside the re-pack: the task, the speeds handed to
\* it, and whether the server could run the task at that moment.
AllocateCall(t, sp, s, alloc) ==
    [task |-> t, sp |-> sp, can_run |-> can_run(t, s, alloc)]

RECURSIVE GreedyRepackLoop(_, _, _, _, _)
\* The for loop over the sorted residents: a resident the server can run
\* is allocated with the speeds that the resource allocation policy
\* computes for new_task; the others are passed over.
GreedyRepackLoop(order, new_task, s, alloc, assigned) ==
    IF order = << >>
    THEN {[raised |-> "no", alloc |-> alloc, assigned |-> assigned]}
    ELSE LET t == Head(order)
         IN  IF ~can_run(t, s, alloc)
             THEN GreedyRepackLoop(Tail(order), new_task, s, alloc, assigned)
             ELSE IF AllocationSpeeds(new_task, s, alloc) = {}
             THEN {[raised |-> "SolveError", alloc |-> alloc,
                    assigned |-> assigned]}
             ELSE UNION {
                    IF AllocatePrecondition(t, sp, s, alloc)
                    THEN GreedyRepackLoop(Tail(order), new_task, s,
                            [alloc EXCEPT ![t] = [server |-> s, sp |-> sp]],
                            Append(assigned, AllocateCall(t, sp, s, alloc)))
                    ELSE {[raised |-> "AssertionError", alloc |-> alloc,
                           assigned |->
                              Append(assigned,
                                     AllocateCall(t, sp, s, alloc))]}
                    : sp \in MinimalSpeeds(new_task, s, alloc)}

\* The re-pack of greedy_task_price: the server is emptied, new_task is
\* allocated first with the policy's speeds, then the loop runs.
GreedyRepack(new_task, s) ==
    IF AllocationSpeeds(new_task, s, NoAllocation) = {}
    THEN {[raised |-> "SolveError", alloc |-> NoAllocation,
           assigned |-> << >>]}
    ELSE UNION {
           LET first == <<AllocateCall(new_task, sp, s, NoAllocation)>>
           IN  IF AllocatePrecondition(new_task, sp, s, NoAllocation)
               THEN GreedyRepackLoop(
                      SortedByPriceDensity(allocated_tasks[s]), new_task, s,
                      [NoAllocation EXCEPT ![new_task] =
                          [server |-> s, sp |-> sp]],
                      first)
               ELSE {[raised |-> "AssertionError", alloc |-> NoAllocation,
                      assigned |-> first]}
           : sp \in MinimalSpeeds(new_task, s, NoAllocation)}

\* server.revenue after the re-pack: the prices of the tasks on the server.
RepackRevenue(s, alloc) ==
    LET on == {t \in Range(tasks) : alloc[t].server = s}
    IN  SumSet(price, on)

\* The call returns the price.  The closing reset_model is called without
\* forgot_price, so the residents lose their prices as new_task does; the
\* residents are then allocated again with the speeds they had.
GreedyQuoteReturn ==
    /\ fn_pc = "call"
    /\ fn_call.op = "greedy_task_price"
    /\ \E out \in GreedyRepack(fn_call.new_task, fn_call.server) :
        /\ out.raised = "no"
        /\ fn_call' =
             [fn_call EXCEPT
                !.result = Revenue(fn_call.server)
                             - RepackRevenue(fn_call.server, out.alloc)
                             + server[fn_call.server].price_change,
                !.assigned = out.assigned,
                !.kept = {t \in Range(allocated_tasks[fn_call.server]) :
                            out.alloc[t].server # None}]
    /\ price' = [t \in Range(tasks) |->
                   IF t = fn_call.new_task
                      \/ t \in Range(allocated_tasks[fn_call.server])
                   THEN 0 ELSE price[t]]
    /\ fn_pc' = "returned"
    /\ UNCHANGED <<tasks, servers, task, server, speed, running_server,
                   allocated_tasks, notFnVars>>

\* The call raises inside the re-pack: the server is left as the re-pack
\* had it, with the tasks allocated so far.
GreedyQuoteRaise ==
    /\ fn_pc = "call"
    /\ fn_call.op = "greedy_task_price"
    /\ \E out \in GreedyRepack(fn_call.new_task, fn_call.server) :
        /\ out.raised # "no"
        /\ fn_call' = [fn_call EXCEPT !.assigned = out.assigned]
        /\ fn_pc' = out.raised
        /\ running_server' = [t \in Range(tasks) |-> out.alloc[t].server]
        /\ speed' = [t \in Range(tasks) |->
                       IF out.alloc[t].server # None THEN out.alloc[t].sp
                       ELSE speed[t]]
        /\ allocated_tasks' =
             [allocated_tasks EXCEPT ![fn_call.server] =
                SelectSeq(<<fn_call.new_task>>
                            \o SortedByPriceDensity(allocated_tasks[fn_call.server]),
                          LAMBDA t : out.alloc[t].server # None)]
    /\ UNCHANGED <<tasks, servers, task, server, price, notFnVars>>

NextGreedyQuote == GreedyQuoteReturn \/ GreedyQuoteRaise

SpecGreedyQuote == InitGreedyQuote /\ [][NextGreedyQuote]_vars

\* ------------------------------------ greedy_decentralised_iterative_auction
\* The objects handed around as arguments: tasks, servers and the two
\* policies.
TaskObject(t) == [kind |-> "Task", id |-> t]
ServerObject(s) == [kind |-> "Server", id |-> s]
PriceDensityObject == [kind |-> "PriceDensity", id |-> None]
PolicyObject == [kind |-> "ResourceAllocationPolicy", id |-> None]

\* The parameters of greedy_task_price bound to positional arguments, in
\* the order of the signature.
BindGreedyTaskPrice(args) ==
    [new_task |-> args[1], server |-> args[2], price_density |-> args[3],
     resource_allocation_policy |-> args[4]]

\* solver = functools.partial(greedy_task_price, price_density,
\* resource_allocation_policy): the two policies are the leading positional
\* arguments of every call of the solver; dia_solver then starts.
InitGreedyDIA ==
    /\ \E nt \in 0..MaxTasks, ns \in 0..MaxServers :
        /\ tasks = [i \in 1..nt |-> i]
        /\ servers = [i \in 1..ns |-> i]
        /\ task \in [1..nt -> TaskTypes]
        /\ server \in [1..ns -> ServerTypes]
        /\ speed = [t \in 1..nt |-> <<0, 0, 0>>]
        /\ running_server = [t \in 1..nt |-> None]
        /\ price = [t \in 1..nt |-> 0]
        /\ allocated_tasks = [s \in 1..ns |-> << >>]
    /\ unallocated_tasks = tasks
    /\ rounds = 0
    /\ dia_pc = "loop"
    /\ dia_task = None
    /\ min_price = -1
    /\ min_server = None
    /\ min_speeds = << >>
    /\ branch = "none"
    /\ quote_failed = FALSE
    /\ VcgIdle
    /\ PqIdle
    /\ RelaxedIdle
    /\ fn_pc = "idle"
    /\ fn_call = [op |-> "partial", func |-> "greedy_task_price",
                  args |-> <<PriceDensityObject, PolicyObject>>,
                  bound |-> << >>]

\* A round with servers: the task is drawn and task_price_solver(task,
\* server) is called for the first server.  The call appends task and server
\* to the partial's arguments; greedy_task_price reads
\* server.allocated_tasks of whatever is bound to server, an AttributeError
\* unless that is a server.
GreedyDiaQuoteRaise ==
    /\ dia_pc = "loop"
    /\ unallocated_tasks # << >>
    /\ servers # << >>
    /\ \E i \in 1..Len(unallocated_tasks) :
        LET t == unallocated_tasks[i]
            bound == BindGreedyTaskPrice(
                        fn_call.args
                            \o <<TaskObject(t), ServerObject(Head(servers))>>)
        IN  /\ bound.server.kind # "Server"
            /\ unallocated_tasks' = RemoveAt(unallocated_tasks, i)
            /\ dia_task' = t
            /\ fn_call' = [fn_call EXCEPT !.bound = bound]
    /\ dia_pc' = "AttributeError"
    /\ UNCHANGED <<domainVars, rounds, min_price, min_server, min_speeds,
                   branch, quote_failed, vcgVars, pqVars, relaxedVars, fn_pc>>

\* A round without servers: min_price stays -1, the round takes the
\* allocate_task branch and the debug line reads min_server.name of None.
GreedyDiaNoServer ==
    /\ dia_pc = "loop"
    /\ unallocated_tasks # << >>
    /\ servers = << >>
    /\ \E i \in 1..Len(unallocated_tasks) :
        /\ unallocated_tasks' = RemoveAt(unallocated_tasks, i)
        /\ dia_task' = unallocated_tasks[i]
    /\ TakesAdmitBranch(dia_task', NoQuote)
    /\ branch' = "admit"
    /\ dia_pc' = "AttributeError"
    /\ UNCHANGED <<domainVars, rounds, min_price, min_server, min_speeds,
                   quote_failed, vcgVars, libVars>>

\* The while loop ends on an empty list and dia_solver returns.
GreedyDiaReturn ==
    /\ dia_pc = "loop"
    /\ unallocated_tasks = << >>
    /\ dia_pc' = "returned"
    /\ UNCHANGED <<domainVars, unallocated_tasks, rounds, dia_task,
                   min_price, min_server, min_speeds, branch, quote_failed,
                   vcgVars, libVars>>

NextGreedyDIA == GreedyDiaQuoteRaise \/ GreedyDiaNoServer \/ GreedyDiaReturn

SpecGreedyDIA == InitGreedyDIA /\ [][NextGreedyDIA]_vars

\* ------------------------------------------- dia_solver, the server loop
\* The longest server list the loop over the servers is run on, and the
\* prices a server quotes (math.inf among them).
MaxQuoteServers == 3
QuotePrices == {1, 2, 3, Inf}

\* The loop over the servers as dia_solver runs it.
ServerLoop(quotes, srvs) == MinQuote(quotes, srvs, NoQuote)

\* The loop is run on a list of servers, each with the price it quotes.
InitServerLoop ==
    /\ NoPopulation
    /\ DiaIdle
    /\ VcgIdle
    /\ PqIdle
    /\ RelaxedIdle
    /\ fn_pc = "call"
    /\ \E n \in 0..MaxQuoteServers : \E prices \in [1..n -> QuotePrices] :
        fn_call = [op |-> "server_loop", servers |-> [i \in 1..n |-> i],
                   prices |-> prices, min_price |-> -1, min_server |-> None]

\* The loop runs to its end.
ServerLoopRuns ==
    /\ fn_pc = "call"
    /\ fn_call.op = "server_loop"
    /\ LET quotes == [s \in Range(fn_call.servers) |->
                        [price |-> fn_call.prices[s], speeds |-> << >>,
                         keys |-> << >>]]
           m == ServerLoop(quotes, fn_call.servers)
       IN  fn_call' = [fn_call EXCEPT !.min_price = m.min_price,
                                      !.min_server = m.min_server]
    /\ fn_pc' = "returned"
    /\ UNCHANGED <<domainVars, notFnVars>>

NextServerLoop == ServerLoopRuns

SpecServerLoop == InitServerLoop /\ [][NextServerLoop]_vars

\* dia_solver under its scheduling: the while loop takes its next round, or
\* returns, whenever it can.
FairSpecDIA == SpecDIA /\ WF_vars(NextDIA)

\* ------------------------------------------------- properties of dia_solver
\* A round has been played over at least one server: its task, minimum quote
\* and branch are on record.
RoundPlayed == dia_task # None /\ servers # << >>

\* C1: in every round the drawn task is admitted only when the minimum quote
\* over the servers is at most its value, and when the minimum quote exceeds
\* its value the task is rejected: the round takes the rejecting branch, the
\* loop goes on, the task has no server and is not in the unallocated list.
C1_AdmitOnlyWithinValue ==
    RoundPlayed =>
        /\ branch = "admit" =>
              /\ min_price # -1
              /\ min_price <= task[dia_task].value
        /\ min_price > task[dia_task].value =>
              /\ branch = "reject"
              /\ ~DiaRaised
              /\ running_server[dia_task] = None
              /\ dia_task \notin Range(unallocated_tasks)

\* C2: with at least one server, every price_change > 0 and a quote from
\* every pricing sub-solve, the loop terminates: the unallocated list becomes empty and dia_solver
\* returns.
C2_ReturnsWhenQuoted ==
    <>(\/ quote_failed
       \/ servers = << >>
       \/ dia_pc = "returned" /\ unallocated_tasks = << >>)

\* C3: when the pricing sub-solve reports no solution on every server, the
\* drawn task is rejected: price 0, no running server, no resident set
\* changed, no error raised, and the loop goes on.
C3_RejectsWhenNoServerFits ==
    (RoundPlayed /\ min_price = Inf) =>
        /\ branch = "reject"
        /\ ~DiaRaised
        /\ price[dia_task] = 0
        /\ running_server[dia_task] = None
        /\ \A s \in Range(servers) : allocated_tasks[s] = << >>

\* ------------------------------------------ properties of fixed_vcg_auction
\* Server s holds its resident list within its own three capacities.
FitsServer(s) ==
    LET on == Range(allocated_tasks[s])
    IN  /\ SumSet([t \in on |-> task[t].S], on)
            <= server[s].storage_capacity
        /\ SumSet([t \in on |-> speed[t][2]], on)
            <= server[s].computation_capacity
        /\ SumSet([t \in on |-> speed[t][1] + speed[t][3]], on)
            <= server[s].bandwidth_capacity

\* C4: in the allocation every optimal_algorithm solve produces, and in the
\* allocation fixed_vcg_auction returns, every server's allocated tasks are
\* within its storage, computation and bandwidth capacities.
C4_AllocationsWithinCapacities ==
    vcg_pc \in {"pricing", "result"} =>
        \A s \in Range(servers) : FitsServer(s)

\* The job list without job t.
JobsWithout(t) == SelectSeq(tasks, LAMBDA x : x # t)

\* fixed_vcg_auction returned a Result.
VcgReturned == vcg_pc = "result"

\* C6: every task t allocated in the full optimum is stamped with the price
\* W - W(without t), the objective values of the full solve and of the solve
\* without t; with every solve exact, these are the optimum of the full
\* population and the optimum of the population without t.
C6_PriceIsMarginalWelfare ==
    VcgReturned =>
        \A t \in Range(tasks) :
            first_solution[t] # None =>
                /\ price[t] =
                     sub_welfare[<<"full", 0>>] - sub_welfare[<<"job", t>>]
                /\ all_exact =>
                     price[t] = MaxWelfare(tasks, servers)
                                  - MaxWelfare(JobsWithout(t), servers)

\* A returned auction, solved exactly, in which two jobs are both allocated
\* and one of them is stamped with a price above 0.
C6_Witness ==
    /\ VcgReturned
    /\ all_exact
    /\ \E t, u \in Range(tasks) :
        /\ t # u
        /\ first_solution[t] # None
        /\ first_solution[u] # None
        /\ price[t] > 0

\* C7: when every solve of the auction is exact, the task prices and the
\* server revenues have the same sum and the Result has failure = false.
C7_BalanceWhenExact ==
    (VcgReturned /\ all_exact) =>
        /\ SumSet(job_prices, DOMAIN job_prices)
             = SumSet(server_revenues, DOMAIN server_revenues)
        /\ ~failure

\* Two jobs valued 10 and 3 (hi and lo) and one server that can host either
\* of them but not both.
SecondPriceScenario(hi, lo) ==
    /\ Range(tasks) = {hi, lo}
    /\ Len(servers) = 1
    /\ task[hi].value = 10
    /\ task[lo].value = 3
    /\ \A a \in FeasibleAllocations(tasks, servers) :
         a[hi] = None \/ a[lo] = None
    /\ \E a \in FeasibleAllocations(tasks, servers) : a[hi] # None
    /\ \E a \in FeasibleAllocations(tasks, servers) : a[lo] # None

\* C8: in the second-price scenario, solved exactly, the job valued 10 is
\* allocated and pays 3, the job valued 3 is not allocated and pays 0, and
\* the prices and the revenues balance.
C8_SecondPrice ==
    \A hi, lo \in Range(tasks) :
        (VcgReturned /\ all_exact /\ SecondPriceScenario(hi, lo)) =>
            /\ running_server[hi] # None
            /\ running_server[lo] = None
            /\ price[hi] = 3
            /\ price[lo] = 0
            /\ ~failure

\* C9: with every solve exact, every task the auction allocates is stamped
\* with a price that is at most its value.
C9_IndividualRationality ==
    (VcgReturned /\ all_exact) =>
        \A t \in Range(tasks) :
            running_server[t] # None => price[t] <= task[t].value

\* A returned auction, solved exactly, with an allocated task whose price
\* is above 0 and strictly below its value.
C9_Witness ==
    /\ VcgReturned
    /\ all_exact
    /\ \E t \in Range(tasks) :
        /\ running_server[t] # None
        /\ 0 < price[t]
        /\ price[t] < task[t].value

\* C10: the returned allocation is exactly that of the first solve: every
\* task runs on the server it had there (on none if it had none) and every
\* server's resident list is the tasks placed on it there, each once.
C10_FirstOptimumRestored ==
    VcgReturned =>
        /\ \A t \in Range(tasks) : running_server[t] = first_solution[t]
        /\ \A s \in Range(servers) :
             allocated_tasks[s] = JobsOn(first_solution, tasks, s)

\* A returned auction in which the first solve put a task on a server and
\* the solve without that server placed tasks on another one.
C10_Witness ==
    /\ VcgReturned
    /\ \E s \in Range(servers) :
        /\ sub_welfare[<<"server", s>>] > 0
        /\ \E t \in Range(tasks) : first_solution[t] = s

\* C11: when a solve of the auction (the full one, one without a job, one
\* without a server) ends UNKNOWN, the auction still ends in a Result, with
\* its failure flag set: it never ends returning None in place of a Result.
C11_UnknownYieldsFailureResult ==
    vcg_pc # "none"

\* ---------------------------------------------- properties of PriorityQueue
\* Only instance i has been used.
OnlyInstance(i) ==
    /\ pq_pc # "idle"
    /\ \A j \in PqInstances \ {i} : pq_size[j] = 0

\* C13: in a sequence of pushes and pops on one queue that never pops an
\* empty queue, every operation completes and every pop returns an element
\* it held that is minimal under the comparator: no held element compares
\* LESS than the one returned.
C13_PopReturnsMinimum ==
    OnlyInstance(1) =>
        /\ pq_pc # "IndexError"
        /\ pq_last.op = "pop" =>
              /\ pq_last.value \in Range(pq_last.held)
              /\ \A y \in Range(pq_last.held) :
                    compare(y, pq_last.value) # "LESS"

\* --------------------------------------------- more properties of dia_solver
\* C14: one task of value 1 and one empty server with initial_price 25: the
\* first quote exceeds the value, the task is rejected, the run counts one
\* round and has an empty unallocated list, and the server's revenue and
\* resident list are as before.
C14_RejectionScenario ==
    (/\ RoundPlayed
     /\ ~quote_failed
     /\ Len(tasks) = 1
     /\ Len(servers) = 1
     /\ task[dia_task].value = 1
     /\ server[servers[1]].initial_price = 25) =>
        /\ min_price > task[dia_task].value
        /\ branch = "reject"
        /\ ~DiaRaised
        /\ rounds = 1
        /\ unallocated_tasks = << >>
        /\ Revenue(servers[1]) = 0
        /\ allocated_tasks[servers[1]] = << >>

\* The sets of tasks that a flexible allocation can place on the individual
\* servers: every placed task gets integer speeds of at least 1 that meet
\* its deadline, and every server's three capacities hold its own tasks.
FitsOnServer(B, s) ==
    \E sp \in [B -> (1..server[s].bandwidth_capacity)
                      \X (1..server[s].computation_capacity)
                      \X (1..server[s].bandwidth_capacity)] :
        /\ \A t \in B : DeadlineOK(t, sp[t])
        /\ SumSet([t \in B |-> task[t].S], B) <= server[s].storage_capacity
        /\ SumSet([t \in B |-> sp[t][2]], B) <= server[s].computation_capacity
        /\ SumSet([t \in B |-> sp[t][1] + sp[t][3]], B)
             <= server[s].bandwidth_capacity

FlexibleAllocations ==
    {A \in SUBSET Range(tasks) :
        \E on \in [A -> Range(servers)] :
            \A s \in Range(servers) : FitsOnServer({t \in A : on[t] = s}, s)}

\* C16: whenever relaxed_algorithm's solve is exact (it ends OPTIMAL, or the
\* model is infeasible) on a population with at least one server, it returns
\* a Result whose social welfare is at least the social welfare of every
\* feasible allocation of the same tasks to the individual servers.
C16_RelaxedBoundsFlexible ==
    (/\ relaxed_pc \in {"result", "none"}
     /\ servers # << >>
     /\ relaxed_status \in {"Optimal", "Infeasible"})
    => /\ relaxed_pc = "result"
       /\ \A A \in FlexibleAllocations :
            RelaxedWelfare(A) <= RelaxedWelfare(Range(super_tasks))

\* C17: called on a non-empty list whose keys are all numbers, rand_list_max
\* returns an element whose key is the maximum key of the whole list.
C17_ReturnsMaximumKey ==
    (/\ fn_call.op = "rand_list_max"
     /\ fn_pc # "call"
     /\ fn_call.args # << >>
     /\ \A i \in DOMAIN fn_call.args : fn_call.args[i] # None)
    => /\ fn_pc = "returned"
       /\ fn_call.result \in DOMAIN fn_call.args
       /\ \A i \in DOMAIN fn_call.args :
            fn_call.args[i] <= fn_call.args[fn_call.result]

\* C18: after reset_allocation(forgot_price) a fixed task has no running
\* server, its price is the price it had before when forgot_price is false
\* and 0 when it is true; a reset that repeats the reset before it leaves
\* the task as it found it, and resetting once more would change nothing.
C18_IdempotentReset ==
    fn_call.op = "reset_allocation"
    => LET now == FixedState(fn_call.task)
       IN  /\ now.running_server = None
           /\ now.price = IF fn_call.arg THEN 0 ELSE fn_call.before.price
           /\ fn_call.repeat => now = fn_call.before
           /\ reset_allocation(now, fn_call.arg) = now

\* A priced task is reset a second time in a row with forgot_price false.
C18_Witness ==
    /\ fn_call.op = "reset_allocation"
    /\ fn_call.repeat
    /\ ~fn_call.arg
    /\ price[fn_call.task] > 0

\* The subsets of the residents of s that fit on s together with new_task:
\* integer speeds of at least 1 for every included task that meet its
\* deadline and stay within the three capacities of s.
FittingSubsets(new_task, s) ==
    LET residents == Range(allocated_tasks[s])
        dom == (1..server[s].bandwidth_capacity)
                 \X (1..server[s].computation_capacity)
                 \X (1..server[s].bandwidth_capacity)
    IN  {A \in SUBSET residents :
            \E sp \in [A \cup {new_task} -> dom] :
                HoldsResidents(s, A \cup {new_task}, sp)}

\* The total prices of the fitting subsets.
FittingRevenues(new_task, s) ==
    {SumSet(price, A) : A \in FittingSubsets(new_task, s)}

\* The returned call of optimal_task_price.
QuoteReturned ==
    fn_call.op = "optimal_task_price" /\ fn_pc = "returned"

\* C19: the quote that optimal_task_price returns is revenue - R +
\* price_change where R is the total price of a fitting subset of the
\* residents, and R is the maximum such total when the solve ends OPTIMAL;
\* a solve that ends without solution returns math.inf.
C19_QuoteFromSolveOutcome ==
    QuoteReturned =>
        LET t == fn_call.new_task
            s == fn_call.server
            q == fn_call.result
        IN  /\ fn_call.status \in {"Optimal", "Feasible"} =>
                \E R \in FittingRevenues(t, s) :
                    q = Revenue(s) - R + server[s].price_change
            /\ fn_call.status = "Optimal" =>
                q = Revenue(s) - SetMax(FittingRevenues(t, s))
                      + server[s].price_change
            /\ fn_call.status \in {"Infeasible", "Unknown"} => q = Inf
            /\ fn_call.status = "Infeasible" => FittingSubsets(t, s) = {}

\* A solve that ends OPTIMAL on a server with two residents of different
\* prices, one of which has to leave for the new task.
C19_Witness ==
    /\ QuoteReturned
    /\ fn_call.status = "Optimal"
    /\ Len(allocated_tasks[1]) = 2
    /\ price[1] # price[2]
    /\ fn_call.result
         = SetMin({price[1], price[2]}) + server[1].price_change

\* C19 as stated: whenever new_task fits on s at all, the quote is revenue
\* minus the maximum total price of a fitting subset plus price_change.
C19_QuoteFromMaximum ==
    (QuoteReturned
     /\ FittingSubsets(fn_call.new_task, fn_call.server) # {})
    => fn_call.result
         = Revenue(fn_call.server)
             - SetMax(FittingRevenues(fn_call.new_task, fn_call.server))
             + server[fn_call.server].price_change

\* C20: a round that takes the admitting branch with a quote of a server
\* completes the admission: the run has not raised, the drawn task is
\* resident on the chosen server with the quote as its price and is not in
\* the unallocated list, and every other server keeps its residents.
C20_AdmissionEffects ==
    (RoundPlayed /\ branch = "admit" /\ min_server # None)
    => /\ ~DiaRaised
       /\ running_server[dia_task] = min_server
       /\ dia_task \in Range(allocated_tasks[min_server])
       /\ price[dia_task] = min_price
       /\ dia_task \notin Range(unallocated_tasks)
       /\ \A s \in Range(servers) \ {min_server} :
            \A t \in Range(allocated_tasks[s]) : running_server[t] = s

\* C12: for a task the critical value auction allocated at price c, the
\* greedy algorithm run again with the task's value replaced by a value
\* above c allocates the task, and run with a value below c (when c > 0)
\* leaves it unallocated.
C12_CriticalValueCorrect ==
    fn_call.op = "greedy_algorithm"
    => LET t == fn_call.task
       IN  /\ fn_call.value > price[t] => running_server[t] # None
           /\ (price[t] > 0 /\ fn_call.value < price[t])
                => running_server[t] = None

\* A task with a positive critical value below its declared value is run
\* again with a value above the critical value and is allocated.
C12_Witness ==
    /\ fn_call.op = "greedy_algorithm"
    /\ price[fn_call.task] > 0
    /\ price[fn_call.task] < task[fn_call.task].value
    /\ fn_call.value > price[fn_call.task]
    /\ fn_call.value < task[fn_call.task].value
    /\ running_server[fn_call.task] # None

\* A call of greedy_task_price that has ended, by returning or by raising.
GreedyQuoteEnded == fn_call.op = "greedy_task_price" /\ fn_pc # "call"

\* C21: every prior resident that the greedy re-pack allocates again is
\* handed speeds that meet the resident's own deadline inequality.
C21_KeptResidentsMeetDeadline ==
    GreedyQuoteEnded =>
        \A i \in DOMAIN fn_call.assigned :
            fn_call.assigned[i].task # fn_call.new_task
            => DeadlineOK(fn_call.assigned[i].task, fn_call.assigned[i].sp)

\* C22: every allocate call of the greedy re-pack, the one for the new task
\* included, is made only when the server can run the task at that moment.
C22_AllocationsGatedByCanRun ==
    GreedyQuoteEnded =>
        \A i \in DOMAIN fn_call.assigned : fn_call.assigned[i].can_run

\* C23: in the greedy DIA, the quote for the drawn task on a server comes
\* from greedy_task_price with the drawn task bound to new_task and the
\* server bound to server, and the round goes on without raising.
C23_GreedyQuoteFromGreedyTaskPrice ==
    (fn_call.op = "partial" /\ dia_task # None /\ servers # << >>)
    => /\ fn_call.bound.new_task = TaskObject(dia_task)
       /\ fn_call.bound.server.kind = "Server"
       /\ ~DiaRaised

\* C24: after the loop over a non-empty server list, the chosen server
\* quotes the minimum price and no server before it in the list quotes the
\* same price.
C24_FirstServerOnTie ==
    (fn_call.op = "server_loop" /\ fn_pc = "returned"
     /\ fn_call.servers # << >>)
    => /\ fn_call.min_server \in Range(fn_call.servers)
       /\ fn_call.min_price = fn_call.prices[fn_call.min_server]
       /\ \A s \in Range(fn_call.servers) :
            /\ fn_call.min_price <= fn_call.prices[s]
            /\ s < fn_call.min_server
                 => fn_call.prices[s] > fn_call.min_price

\* Two servers quote the minimum, a dearer one stands before them, and the
\* first of the two is chosen.
C24_Witness ==
    /\ fn_call.op = "server_loop"
    /\ fn_pc = "returned"
    /\ fn_call.min_server = 2
    /\ Len(fn_call.servers) = 3
    /\ fn_call.prices[3] = fn_call.prices[2]
    /\ fn_call.prices[1] > fn_call.prices[2]


\* C25: within one fixed_vcg_auction run, every solve made so far (the full
\* optimum, each job removal, each server removal) was called with the
\* time_limit the auction was called with.
C25_SolvesUseAuctionTimeLimit ==
    (vcg_pc # "idle" /\ solve_time_limit # NoSolve)
        => solve_time_limit = TimeLimitValue(time_limit)


\* C26: after any sequence of pushes and pops on one queue, its size field
\* is the number of elements it holds (0 once the last element is popped)
\* and no operation has raised.
C26_SizeIsNumberHeld ==
    OnlyInstance(1) =>
        /\ pq_size[1] = Len(pq_held[1])
        /\ pq_pc # "IndexError"


\* C30: two PriorityQueue instances are independent: a pop that completes on
\* one instance returns an element that was pushed on that instance and not
\* yet popped from it, whatever was pushed on or popped from the other.
C30_InstancesIndependent ==
    (pq_pc = "run" /\ pq_last.op = "pop")
        => pq_last.value \in Range(pq_last.held)


\* C27: a call of greedy_task_price that returns a quote leaves the state as
\* it found it: the server's resident list, every task's speeds, price and
\* running server (so the server's revenue, and the new task unallocated
\* with the price it had).
C27_QuoteLeavesStateUnchanged ==
    [][(fn_call.op = "greedy_task_price" /\ fn_pc' = "returned")
          => UNCHANGED <<allocated_tasks, speed, price, running_server>>]_vars


\* C28: a round of dia_solver that takes the admitting branch with the quote
\* of a server raises that server's revenue by exactly its price_change, and
\* the price stamped on the admitted task is at least price_change.
C28_AdmissionRaisesRevenue ==
    [][(dia_pc = "loop" /\ branch' = "admit" /\ min_server' # None)
          => /\ SumSeq(price', allocated_tasks'[min_server'])
                  = Revenue(min_server') + server[min_server'].price_change
             /\ price'[dia_task'] >= server[min_server'].price_change]_vars


\* dia_solver is between two rounds, or past its last one.
BetweenRounds == dia_pc \in {"loop", "returned"}

\* How many times x is in the list.
Count(seq, x) == Cardinality({i \in DOMAIN seq : seq[i] = x})

\* The servers whose resident list holds task t.
ResidentOn(t) == {s \in Range(servers) : t \in Range(allocated_tasks[s])}

====
